---- MODULE Spec2Model ----
(***************************************************************************)
(* Model of connectors/source-appstore-singer/setup.py: the evaluation of  *)
(* the packaging manifest by a build tool.  Two builds evaluate the same   *)
(* manifest, each in its own directory tree, so that statements comparing  *)
(* two evaluations can be checked.  Strings whose content matters          *)
(* (requirements, patterns, file and package names) are sequences of       *)
(* one-character strings, so that parsing and matching are computed.       *)
(***************************************************************************)
EXTENDS Integers, Sequences, FiniteSets, TLC

VARIABLES fs, pc, globals, setup_calls, dist

vars == <<fs, pc, globals, setup_calls, dist>>

\* The two evaluations of the manifest that are compared with each other.
Builds == {1, 2}

\* Deepest directory nesting below setup.py that a build environment holds.
MaxDepth == 2

----------------------------------------------------------------------------
\* String literals of the manifest, character by character.

EmptyStr == <<>>

name ==
    <<"s", "o", "u", "r", "c", "e", "_", "a", "p", "p", "s", "t", "o", "r",
      "e", "_", "s", "i", "n", "g", "e", "r">>

ReqAirbyteProtocol ==
    <<"a", "i", "r", "b", "y", "t", "e", "-", "p", "r", "o", "t", "o", "c",
      "o", "l">>

ReqAppstoreconnect ==
    <<"a", "p", "p", "s", "t", "o", "r", "e", "c", "o", "n", "n", "e", "c",
      "t", "=", "=", "0", ".", "9", ".", "0">>

ReqBaseSinger ==
    <<"b", "a", "s", "e", "-", "s", "i", "n", "g", "e", "r">>

ReqBasePython ==
    <<"b", "a", "s", "e", "-", "p", "y", "t", "h", "o", "n">>

ReqPyjwt ==
    <<"p", "y", "j", "w", "t", "=", "=", "1", ".", "6", ".", "4">>

ReqTapAppstore ==
    <<"t", "a", "p", "-", "a", "p", "p", "s", "t", "o", "r", "e", " ", "@",
      " ", "h", "t", "t", "p", "s", ":", "/", "/", "g", "i", "t", "h", "u",
      "b", ".", "c", "o", "m", "/", "a", "i", "r", "b", "y", "t", "e", "h",
      "q", "/", "t", "a", "p", "-", "a", "p", "p", "s", "t", "o", "r", "e",
      "/", "t", "a", "r", "b", "a", "l", "l", "/", "m", "a", "s", "t", "e",
      "r">>

ReqPytestRunner ==
    <<"p", "y", "t", "e", "s", "t", "-", "r", "u", "n", "n", "e", "r">>

ReqPytest ==
    <<"p", "y", "t", "e", "s", "t">>

ReqAirbytePythonTest ==
    <<"a", "i", "r", "b", "y", "t", "e", "-", "p", "y", "t", "h", "o", "n",
      "-", "t", "e", "s", "t">>

ExtraTests ==
    <<"t", "e", "s", "t", "s">>

PatternJson ==
    <<"*", ".", "j", "s", "o", "n">>

----------------------------------------------------------------------------
\* The keyword arguments of the setup() call that do not depend on the
\* build environment.

\* Variants of install_requires: the signing-token library left out; the API
\* client given a version range; one requirement listed twice; the tap
\* required by name only.
install_requires_no_pyjwt ==
    <<ReqAirbyteProtocol, ReqAppstoreconnect, ReqBaseSinger, ReqBasePython,
      ReqTapAppstore>>

install_requires_range ==
    <<ReqAirbyteProtocol,
      <<"a", "p", "p", "s", "t", "o", "r", "e", "c", "o", "n", "n", "e", "c",
        "t", ">", "=", "0", ".", "9", ".", "0">>,
      ReqBaseSinger, ReqBasePython, ReqPyjwt, ReqTapAppstore>>

install_requires_dup ==
    <<ReqAirbyteProtocol, ReqAppstoreconnect, ReqBaseSinger, ReqBasePython,
      ReqPyjwt, ReqTapAppstore, ReqBasePython>>

install_requires_tap_by_name ==
    <<ReqAirbyteProtocol, ReqAppstoreconnect, ReqBaseSinger, ReqBasePython,
      ReqPyjwt,
      <<"t", "a", "p", "-", "a", "p", "p", "s", "t", "o", "r", "e">>>>

install_requires ==
    <<ReqAirbyteProtocol, ReqAppstoreconnect, ReqBaseSinger, ReqBasePython,
      ReqPyjwt, ReqTapAppstore>>

\* Variant of package_data that declares every file.
package_data_all == [k \in {EmptyStr} |-> <<<<"*">>>>]

package_data == [k \in {EmptyStr} |-> <<PatternJson>>]

setup_requires == <<ReqPytestRunner>>

tests_require == <<ReqPytest>>

\* Variant of extras_require without pytest.
extras_require_no_pytest == [k \in {ExtraTests} |-> <<ReqAirbytePythonTest>>]

extras_require == [k \in {ExtraTests} |-> <<ReqAirbytePythonTest, ReqPytest>>]

----------------------------------------------------------------------------
\* String helpers: what the packaging tool does with the literals.

LowerLetters ==
    <<"a", "b", "c", "d", "e", "f", "g", "h", "i", "j", "k", "l", "m", "n",
      "o", "p", "q", "r", "s", "t", "u", "v", "w", "x", "y", "z">>

UpperLetters ==
    <<"A", "B", "C", "D", "E", "F", "G", "H", "I", "J", "K", "L", "M", "N",
      "O", "P", "Q", "R", "S", "T", "U", "V", "W", "X", "Y", "Z">>

Digits == {"0", "1", "2", "3", "4", "5", "6", "7", "8", "9"}

Range(s) == {s[i] : i \in DOMAIN s}

NameSeparators == {"-", "_", "."}

\* The characters a distribution name is made of.
NameChars ==
    Range(LowerLetters) \cup Range(UpperLetters) \cup Digits
        \cup NameSeparators

OperatorChars == {"=", "<", ">", "!", "~"}

\* Length of the longest prefix of s whose characters are all in cs.
RECURSIVE PrefixLen(_, _)
PrefixLen(s, cs) ==
    IF s = <<>> \/ Head(s) \notin cs THEN 0 ELSE 1 + PrefixLen(Tail(s), cs)

RECURSIVE LStrip(_)
LStrip(s) == IF s # <<>> /\ Head(s) = " " THEN LStrip(Tail(s)) ELSE s

RECURSIVE RStrip(_)
RStrip(s) ==
    IF s # <<>> /\ s[Len(s)] = " " THEN RStrip(SubSeq(s, 1, Len(s) - 1)) ELSE s

Strip(s) == LStrip(RStrip(s))

\* s split at every occurrence of the character sep.
RECURSIVE Split(_, _)
Split(s, sep) ==
    LET n == PrefixLen(s, Range(s) \ {sep})
    IN  IF n = Len(s) THEN <<s>>
        ELSE <<SubSeq(s, 1, n)>> \o Split(SubSeq(s, n + 2, Len(s)), sep)

\* The parts joined with the character sep between them.
RECURSIVE Join(_, _)
Join(parts, sep) ==
    IF parts = <<>> THEN <<>>
    ELSE IF Len(parts) = 1 THEN parts[1]
    ELSE parts[1] \o <<sep>> \o Join(Tail(parts), sep)

Lower(c) ==
    IF c \in Range(UpperLetters)
    THEN LowerLetters[CHOOSE i \in DOMAIN UpperLetters : UpperLetters[i] = c]
    ELSE c

\* The canonical form of a distribution name: lower case, every run of
\* "-", "_" and "." replaced by one "-".
RECURSIVE canonicalize_name(_)
canonicalize_name(s) ==
    IF s = <<>> THEN <<>>
    ELSE IF Head(s) \in NameSeparators
    THEN LET n == PrefixLen(s, NameSeparators)
         IN  <<"-">> \o canonicalize_name(SubSeq(s, n + 1, Len(s)))
    ELSE <<Lower(Head(s))>> \o canonicalize_name(Tail(s))

\* One version clause "<op><version>" of a requirement.
ParseSpecifier(clause) ==
    LET c == Strip(clause)
        n == PrefixLen(c, OperatorChars)
    IN  [op |-> SubSeq(c, 1, n), version |-> Strip(SubSeq(c, n + 1, Len(c)))]

\* A requirement string "name", "name<op><version>[,...]" or "name @ url";
\* key is the canonical form of the name.
ParseRequirement(req) ==
    LET s    == Strip(req)
        n    == PrefixLen(s, NameChars)
        rest == Strip(SubSeq(s, n + 1, Len(s)))
        nm   == SubSeq(s, 1, n)
        key  == canonicalize_name(nm)
    IN  IF rest = <<>>
        THEN [name |-> nm, key |-> key, url |-> <<>>, specs |-> {}]
        ELSE IF Head(rest) = "@"
        THEN [name |-> nm, key |-> key, url |-> Strip(Tail(rest)),
              specs |-> {}]
        ELSE [name |-> nm, key |-> key, url |-> <<>>,
              specs |-> {ParseSpecifier(c) : c \in Range(Split(rest, ","))}]

\* A list of requirement strings, each parsed.
parse_requirements(reqs) ==
    [i \in DOMAIN reqs |-> ParseRequirement(reqs[i])]

\* fnmatch: "*" matches any run of characters, "?" any one character.
RECURSIVE fnmatch(_, _)
fnmatch(fname, pat) ==
    IF pat = <<>> THEN fname = <<>>
    ELSE IF Head(pat) = "*"
    THEN \E k \in 0..Len(fname) :
            fnmatch(SubSeq(fname, k + 1, Len(fname)), Tail(pat))
    ELSE IF fname = <<>> THEN FALSE
    ELSE /\ Head(pat) = "?" \/ Head(pat) = Head(fname)
         /\ fnmatch(Tail(fname), Tail(pat))

----------------------------------------------------------------------------
\* The build environment: the directories below the one that holds setup.py.
\* A tree is a chain of nested directories; tree[i] is the directory at
\* depth i, which holds __init__.py iff .init and spec.json iff .json.

InitPy ==
    <<"_", "_", "i", "n", "i", "t", "_", "_", ".", "p", "y">>

SpecJson ==
    <<"s", "p", "e", "c", ".", "j", "s", "o", "n">>

SubDir ==
    <<"s", "u", "b">>

DirEntry == [init : BOOLEAN, json : BOOLEAN]

Trees == UNION {[1..n -> DirEntry] : n \in 0..MaxDepth}

DirName(i) == IF i = 1 THEN name ELSE SubDir

\* The path of the directory at depth i, as its components.
DirPath(i) == [j \in 1..i |-> DirName(j)]

\* The dotted name under which the directory at depth i is a package.
PackageName(i) == Join(DirPath(i), ".")

FilesIn(tree, i) ==
    (IF tree[i].init THEN {InitPy} ELSE {})
        \cup (IF tree[i].json THEN {SpecJson} ELSE {})

\* A directory is a package iff it holds __init__.py.
looks_like_package(tree, i) == InitPy \in FilesIn(tree, i)

\* Variant of find_packages that does not stop at a directory that is not
\* a package.
find_packages_unpruned(tree) ==
    {PackageName(i) : i \in {k \in DOMAIN tree : looks_like_package(tree, k)}}

\* find_packages(): the dotted names of the package directories; the walk
\* does not descend into a directory that is not a package.
find_packages(tree) ==
    {PackageName(i) : i \in {k \in DOMAIN tree :
                                \A j \in 1..k : looks_like_package(tree, j)}}

\* Variant of the setup() call that also declares a console command.
SetupKwargsCli(tree) ==
    [name             |-> name,
     description      |->
        "Source implementation for Appstore, built on the Singer tap implementation.",
     author           |-> "Airbyte",
     author_email     |-> "contact@airbyte.io",
     packages         |-> find_packages(tree),
     install_requires |-> install_requires,
     package_data     |-> package_data,
     setup_requires   |-> setup_requires,
     tests_require    |-> tests_require,
     extras_require   |-> extras_require,
     entry_points     |-> {"source-appstore-singer"}]

\* The keyword arguments of the setup() call evaluated in a directory tree.
SetupKwargs(tree) ==
    [name             |-> name,
     description      |->
        "Source implementation for Appstore, built on the Singer tap implementation.",
     author           |-> "Airbyte",
     author_email     |-> "contact@airbyte.io",
     packages         |-> find_packages(tree),
     install_requires |-> install_requires,
     package_data     |-> package_data,
     setup_requires   |-> setup_requires,
     tests_require    |-> tests_require,
     extras_require   |-> extras_require]

\* The patterns that package_data declares for a package: those under the
\* key "" (every package) and those under the package's own name.
DataPatterns(kw, pkg) ==
    UNION {Range(kw.package_data[k]) :
               k \in DOMAIN kw.package_data \cap {EmptyStr, pkg}}

\* The data files a build of the distribution includes: for every package,
\* the files of its directory that match one of its patterns.
DataFiles(kw, tree) ==
    UNION {LET pkg == PackageName(k)
           IN  IF pkg \in kw.packages
               THEN {<<pkg, f>> : f \in {g \in FilesIn(tree, k) :
                        \E pat \in DataPatterns(kw, pkg) : fnmatch(g, pat)}}
               ELSE {} : k \in DOMAIN tree}

\* The executables that installing the distribution registers.
Executables(kw) ==
    (IF "entry_points" \in DOMAIN kw THEN kw.entry_points ELSE {})
        \cup (IF "scripts" \in DOMAIN kw THEN kw.scripts ELSE {})

\* The name and the requirement lists are literals of the manifest: what
\* setup() makes of them is the same in every build.
Metadata ==
    [name             |-> canonicalize_name(name),
     install_requires |-> parse_requirements(install_requires),
     setup_requires   |-> parse_requirements(setup_requires),
     tests_require    |-> parse_requirements(tests_require),
     extras_require   |-> [e \in DOMAIN extras_require |->
                              parse_requirements(extras_require[e])]]

\* The distribution that setup() builds from its keyword arguments in a
\* directory tree: the name in canonical form, the requirement lists
\* parsed, the data files collected.
Distribution(kw, tree) ==
    [name             |-> Metadata.name,
     install_requires |-> Metadata.install_requires,
     setup_requires   |-> Metadata.setup_requires,
     tests_require    |-> Metadata.tests_require,
     extras_require   |-> Metadata.extras_require,
     data_files       |-> DataFiles(kw, tree),
     executables      |-> Executables(kw)]

\* No distribution: setup() has not been called.
NoDist ==
    [name             |-> <<>>,
     install_requires |-> <<>>,
     setup_requires   |-> <<>>,
     tests_require    |-> <<>>,
     extras_require   |-> <<>>,
     data_files       |-> {},
     executables      |-> {}]

----------------------------------------------------------------------------
\* Evaluation of the manifest, statement by statement.  pc[b] is the line of
\* the statement build b executes next.

Lines == {"L1", "L25", "L27", "done"}

TypeOK ==
    /\ fs \in [Builds -> Trees]
    /\ pc \in [Builds -> Lines]
    /\ globals \in [Builds -> SUBSET {"__doc__", "find_packages", "setup"}]
    /\ \A b \in Builds : Len(setup_calls[b]) \in 0..1

Init ==
    /\ fs \in [Builds -> Trees]
    /\ pc = [b \in Builds |-> "L1"]
    /\ globals = [b \in Builds |-> {}]
    /\ setup_calls = [b \in Builds |-> <<>>]
    /\ dist = [b \in Builds |-> NoDist]

\* Lines 1-23: the module docstring.
EvalDocstring(b) ==
    /\ pc[b] = "L1"
    /\ globals' = [globals EXCEPT ![b] = @ \cup {"__doc__"}]
    /\ pc' = [pc EXCEPT ![b] = "L25"]
    /\ UNCHANGED <<fs, setup_calls, dist>>

\* Line 25: from setuptools import find_packages, setup.
ImportSetuptools(b) ==
    /\ pc[b] = "L25"
    /\ globals' = [globals EXCEPT ![b] = @ \cup {"find_packages", "setup"}]
    /\ pc' = [pc EXCEPT ![b] = "L27"]
    /\ UNCHANGED <<fs, setup_calls, dist>>

\* Variant of the call that is made again after the first call.
CallSetupRetry(b) ==
    /\ pc[b] = "L27"
    /\ {"find_packages", "setup"} \subseteq globals[b]
    /\ LET kw == SetupKwargs(fs[b])
       IN  /\ setup_calls' = [setup_calls EXCEPT ![b] = Append(@, kw)]
           /\ dist' = [dist EXCEPT ![b] = Distribution(kw, fs[b])]
    /\ pc' = [pc EXCEPT ![b] =
                IF Len(setup_calls[b]) = 0 THEN "L27" ELSE "done"]
    /\ UNCHANGED <<fs, globals>>

\* Lines 27-47: the setup(...) call, the last statement of the manifest.
CallSetup(b) ==
    /\ pc[b] = "L27"
    /\ {"find_packages", "setup"} \subseteq globals[b]
    /\ LET kw == SetupKwargs(fs[b])
       IN  /\ setup_calls' = [setup_calls EXCEPT ![b] = Append(@, kw)]
           /\ dist' = [dist EXCEPT ![b] = Distribution(kw, fs[b])]
    /\ pc' = [pc EXCEPT ![b] = "done"]
    /\ UNCHANGED <<fs, globals>>

Next ==
    \/ \E b \in Builds : EvalDocstring(b)
    \/ \E b \in Builds : ImportSetuptools(b)
    \/ \E b \in Builds : CallSetup(b)

Spec == Init /\ [][Next]_vars

\* The interpreter runs a manifest to its end: while some build has a
\* statement left, a statement is executed.
FairSpec == Spec /\ WF_vars(Next)

----------------------------------------------------------------------------
\* The terms the properties are stated in.

Called(b) == Len(setup_calls[b]) > 0

\* The distributions built by the setup() calls made so far.
Dists == {dist[b] : b \in {c \in Builds : Called(c)}}

\* The canonical names of a list of parsed requirements.
Keys(reqs) == {reqs[i].key : i \in DOMAIN reqs}

\* Every parsed requirement of every requirement list of a distribution.
AllRequirements(d) ==
    Range(d.install_requires) \cup Range(d.setup_requires)
        \cup Range(d.tests_require)
        \cup UNION {Range(d.extras_require[e]) : e \in DOMAIN d.extras_require}

NameAirbyteProtocol ==
    <<"a", "i", "r", "b", "y", "t", "e", "-", "p", "r", "o", "t", "o", "c",
      "o", "l">>

NameAppstoreconnect ==
    <<"a", "p", "p", "s", "t", "o", "r", "e", "c", "o", "n", "n", "e", "c",
      "t">>

NamePyjwt == <<"p", "y", "j", "w", "t">>

NameBaseSinger == <<"b", "a", "s", "e", "-", "s", "i", "n", "g", "e", "r">>

NameBasePython == <<"b", "a", "s", "e", "-", "p", "y", "t", "h", "o", "n">>

NameTapAppstore ==
    <<"t", "a", "p", "-", "a", "p", "p", "s", "t", "o", "r", "e">>

NamePytest == <<"p", "y", "t", "e", "s", "t">>

NameAirbytePythonTest ==
    <<"a", "i", "r", "b", "y", "t", "e", "-", "p", "y", "t", "h", "o", "n",
      "-", "t", "e", "s", "t">>

NameSelf ==
    <<"s", "o", "u", "r", "c", "e", "-", "a", "p", "p", "s", "t", "o", "r",
      "e", "-", "s", "i", "n", "g", "e", "r">>

OpEqual == <<"=", "=">>

Version090 == <<"0", ".", "9", ".", "0">>

TapUrl ==
    <<"h", "t", "t", "p", "s", ":", "/", "/", "g", "i", "t", "h", "u", "b",
      ".", "c", "o", "m", "/", "a", "i", "r", "b", "y", "t", "e", "h", "q",
      "/", "t", "a", "p", "-", "a", "p", "p", "s", "t", "o", "r", "e", "/",
      "t", "a", "r", "b", "a", "l", "l", "/", "m", "a", "s", "t", "e", "r">>

----------------------------------------------------------------------------
\* C1: install_requires, as passed to setup(), names the airbyte-protocol
\* layer, the appstoreconnect API client, the pyjwt signing-token library, a
\* base connector framework (base-singer / base-python) and the tap-appstore
\* tap, the tap as a direct URL reference, and names nothing else.
C1_DependencyKinds ==
    \A d \in Dists :
        LET names == Keys(d.install_requires)
        IN  /\ NameAirbyteProtocol \in names
            /\ NameAppstoreconnect \in names
            /\ NamePyjwt \in names
            /\ names \cap {NameBaseSinger, NameBasePython} # {}
            /\ \E r \in Range(d.install_requires) :
                   r.key = NameTapAppstore /\ r.url # <<>>
            /\ names \subseteq {NameAirbyteProtocol, NameAppstoreconnect,
                                NamePyjwt, NameBaseSinger, NameBasePython,
                                NameTapAppstore}

C1_Witness ==
    \E b \in Builds :
        /\ pc[b] = "done"
        /\ Called(b)
        /\ Cardinality(Keys(dist[b].install_requires)) = 6

\* C2: the appstoreconnect requirement is constrained by exactly "==0.9.0",
\* and every version clause of every requirement of install_requires uses
\* the operator "==".
C2_FixedVersion ==
    \A d \in Dists :
        /\ \E r \in Range(d.install_requires) :
               /\ r.key = NameAppstoreconnect
               /\ r.specs = {[op |-> OpEqual, version |-> Version090]}
        /\ \A r \in Range(d.install_requires) :
               \A sp \in r.specs : sp.op = OpEqual

C2_Witness ==
    \E b \in Builds :
        /\ Called(b)
        /\ \E r \in Range(dist[b].install_requires) : r.specs # {}

\* The file name ends in ".json".
IsJsonFile(f) ==
    /\ Len(f) >= 5
    /\ SubSeq(f, Len(f) - 4, Len(f)) = <<".", "j", "s", "o", "n">>

\* The files of the directory of the package with the dotted name pkg.
PackageFiles(tree, pkg) ==
    UNION {FilesIn(tree, i) : i \in {k \in DOMAIN tree :
                                         PackageName(k) = pkg}}

\* C3: package_data maps exactly the key "" to exactly the pattern "*.json",
\* and the data files of a build are, for every package passed as packages,
\* exactly the files of the package's directory whose name ends in ".json".
C3_JsonPackageData ==
    \A b \in Builds :
        Called(b) =>
            LET kw == setup_calls[b][1]
            IN  /\ DOMAIN kw.package_data = {EmptyStr}
                /\ Range(kw.package_data[EmptyStr]) = {PatternJson}
                /\ dist[b].data_files =
                       {<<p, f>> \in kw.packages \X {InitPy, SpecJson} :
                            f \in PackageFiles(fs[b], p) /\ IsJsonFile(f)}

C3_Witness ==
    \E b \in Builds :
        /\ pc[b] = "done"
        /\ Cardinality(setup_calls[b][1].packages) = 2
        /\ Cardinality(dist[b].data_files) = 1

\* C4: no distribution name occurs twice in install_requires, no two
\* requirements of the call name one distribution with different
\* constraints, and the package's own name is not among its install, setup,
\* test or extra requirements.
C4_Consistent ==
    \A d \in Dists :
        /\ Cardinality(Keys(d.install_requires)) = Len(d.install_requires)
        /\ \A r1, r2 \in AllRequirements(d) :
               r1.key = r2.key => r1.specs = r2.specs /\ r1.url = r2.url
        /\ d.name = NameSelf
        /\ NameSelf \notin {r.key : r \in AllRequirements(d)}

C4_Witness ==
    \E b \in Builds :
        /\ Called(b)
        /\ dist[b].name # <<>>
        /\ Cardinality(AllRequirements(dist[b])) > 6

\* C5: extras_require has exactly the extra "tests", which requires exactly
\* pytest and airbyte-python-test; every requirement of tests_require is in
\* that extra; and no test requirement is in install_requires.
C5_TestExtra ==
    \A d \in Dists :
        /\ DOMAIN d.extras_require = {ExtraTests}
        /\ Keys(d.extras_require[ExtraTests]) =
               {NamePytest, NameAirbytePythonTest}
        /\ Range(d.tests_require) \subseteq Range(d.extras_require[ExtraTests])
        /\ (Keys(d.tests_require) \cup Keys(d.extras_require[ExtraTests]))
               \cap Keys(d.install_requires) = {}

C5_Witness ==
    \E b \in Builds :
        /\ Called(b)
        /\ dist[b].tests_require # <<>>
        /\ ExtraTests \in DOMAIN dist[b].extras_require

\* The depths of the directories of a tree that are importable packages.
PkgDirs(tree) == {i \in DOMAIN tree : \A j \in 1..i : tree[j].init}

\* C6 as stated: any two evaluations pass identical values for every
\* setup() argument, packages included.
C6_AllArgumentsStatic ==
    \A b1, b2 \in Builds :
        Called(b1) /\ Called(b2) => setup_calls[b1][1] = setup_calls[b2][1]

\* C6: any two evaluations pass the same arguments with identical values
\* for every argument other than packages, and identical packages whenever
\* the two environments hold the same package directories.
C6_StaticExceptPackages ==
    \A b1, b2 \in Builds :
        Called(b1) /\ Called(b2) =>
            LET kw1 == setup_calls[b1][1]
                kw2 == setup_calls[b2][1]
            IN  /\ DOMAIN kw1 = DOMAIN kw2
                /\ \A k \in DOMAIN kw1 \ {"packages"} : kw1[k] = kw2[k]
                /\ PkgDirs(fs[b1]) = PkgDirs(fs[b2]) =>
                       kw1.packages = kw2.packages

C6_Witness ==
    /\ \A b \in Builds : pc[b] = "done"
    /\ setup_calls[1][1].packages # setup_calls[2][1].packages
    /\ fs[1] # fs[2]

\* C7: every evaluation ends, setup() having been called exactly once: no
\* call before line 27, one call after it, never a second one; the call
\* binds no name of the module, and the module binds nothing but its
\* docstring and the two imported names.
C7_SinglePass ==
    /\ [](\A b \in Builds :
             /\ Len(setup_calls[b]) <= 1
             /\ (pc[b] = "done") <=> (Len(setup_calls[b]) = 1)
             /\ globals[b] \subseteq {"__doc__", "find_packages", "setup"})
    /\ [][\A b \in Builds :
             setup_calls'[b] # setup_calls[b] =>
                 globals'[b] = globals[b] /\ pc'[b] = "done"]_vars
    /\ <>(\A b \in Builds : pc[b] = "done")

C7_Witness ==
    \A b \in Builds :
        /\ pc[b] = "done"
        /\ Len(setup_calls[b]) = 1
        /\ {"find_packages", "setup"} \subseteq globals[b]

\* C8: the setup() call declares no entry_points and no scripts, and the
\* distribution registers no executable.
C8_NoCli ==
    \A b \in Builds :
        /\ \A i \in DOMAIN setup_calls[b] :
               DOMAIN setup_calls[b][i] \cap {"entry_points", "scripts"} = {}
        /\ dist[b].executables = {}

C8_Witness ==
    \E b \in Builds :
        /\ pc[b] = "done"
        /\ "packages" \in DOMAIN setup_calls[b][1]
        /\ setup_calls[b][1].packages # {}
        /\ dist[b].executables = {}

HexDigits == Digits \cup {"a", "b", "c", "d", "e", "f"}

\* The last component of the path of a URL names no version, tag or commit:
\* it holds no digit and is not a hexadecimal object name.
IsUnpinnedRef(ref) ==
    /\ ref # <<>>
    /\ Range(ref) \cap Digits = {}
    /\ ~(Range(ref) \subseteq HexDigits)

\* The components of the tap's URL.
TapUrlPath == Split(TapUrl, "/")

====
